---- MODULE Spec2Model ----
(***************************************************************************)
(* Model of src/CopyStyledLinkButton.tsx: the two clipboard widgets        *)
(* CopyLinkButton (copyFormattedLink, asynchronous multi-format write with *)
(* a textarea fallback) and CopyStyledLinkButton (copyStyledLink, the      *)
(* synchronous selection-based copy), acting on one document and one       *)
(* system clipboard.                                                       *)
(***************************************************************************)
EXTENDS Integers, Sequences, FiniteSets

\* ------------------------------------------------------------------ bounds
MaxClicks == 2
MaxStyledClicks == 2

Invocations == 1..MaxClicks
StyledInvocations == 1..MaxStyledClicks

VARIABLES
    hasClipboardApi,  \* navigator.clipboard.write / ClipboardItem exist
    selectionApi,     \* window.getSelection() returns a Selection (not null)
    clipboard,        \* the system clipboard entry
    body,             \* children of document.body added by the widgets
    ranges,           \* ranges of the document Selection
    focus,            \* the element holding focus / the active text selection
    alerts,           \* alert() calls, in order
    console,          \* console.error() calls, in order
    pc,               \* copyFormattedLink: position of each invocation
    path,             \* copyFormattedLink: branch taken by each invocation
    execResult,       \* copyFormattedLink: outcome of execCommand("copy")
    spc,              \* copyStyledLink: position of each invocation
    styledResult,     \* copyStyledLink: outcome of execCommand("copy")
    landed            \* history: writers whose data reached the clipboard

vars == <<hasClipboardApi, selectionApi, clipboard, body, ranges, focus,
          alerts, console, pc, path, execResult, spc, styledResult, landed>>

\* ------------------------------------------------- copyFormattedLink data
url == "https://your-domain.com/your-path"

Tok(tag, href) == [tag |-> tag, href |-> href]

\* the same template with the second anchor target not interpolated
buttonHtmlStaleHref ==
    << Tok("<!--[if mso]>", ""), Tok("div", ""), Tok("a", url),
       Tok("v:roundrect", ""), Tok("v:textbox", ""), Tok("center", ""),
       Tok("#Click Here", ""), Tok("/center", ""), Tok("/v:textbox", ""),
       Tok("/v:roundrect", ""), Tok("/a", ""), Tok("/div", ""),
       Tok("<![endif]-->", ""), Tok("<!--[if !mso]><!-- -->", ""),
       Tok("a", "https://example.com"), Tok("#Click Here", ""), Tok("/a", ""),
       Tok("<!--<![endif]-->", "") >>

\* template literal: both anchors carry href="${url}"
buttonHtml ==
    << Tok("<!--[if mso]>", ""), Tok("div", ""), Tok("a", url),
       Tok("v:roundrect", ""), Tok("v:textbox", ""), Tok("center", ""),
       Tok("#Click Here", ""), Tok("/center", ""), Tok("/v:textbox", ""),
       Tok("/v:roundrect", ""), Tok("/a", ""), Tok("/div", ""),
       Tok("<![endif]-->", ""), Tok("<!--[if !mso]><!-- -->", ""),
       Tok("a", url), Tok("#Click Here", ""), Tok("/a", ""),
       Tok("<!--<![endif]-->", "") >>

fullHtml == << Tok("meta", ""), Tok("div", "") >> \o buttonHtml \o << Tok("/div", "") >>

plainText == url

\* --------------------------------------------------- copyStyledLink data
html == << Tok("a", "https://example.com"), Tok("#Click Me", ""), Tok("/a", "") >>

\* the rendered text of a fragment: its text nodes
RECURSIVE TextOf(_)
TextOf(h) ==
    IF h = <<>> THEN <<>>
    ELSE IF h[1].href = "" /\ h[1].tag \in {"#Click Me", "#Click Here"}
         THEN <<h[1].tag>> \o TextOf(Tail(h))
         ELSE TextOf(Tail(h))

\* the anchor targets of a fragment
AnchorTargets(h) == { h[k].href : k \in { n \in DOMAIN h : h[n].tag = "a" } }

\* ------------------------------------------------------------- platform
FormattedTag(i) == [kind |-> "formatted", id |-> i]
StyledTag(j) == [kind |-> "styled", id |-> j]
PriorTag == [kind |-> "prior", id |-> 0]

Blob(parts, type) == [type |-> type, data |-> parts]

\* new ClipboardItem({"text/html": ..., "text/plain": ...}) as stored
ClipboardItem(htmlContent, textContent, by) ==
    [types |-> {htmlContent.type, textContent.type},
     html |-> htmlContent.data, plain |-> <<textContent.data>>, by |-> by]

PriorEntry ==
    [types |-> {"text/plain"}, html |-> <<>>, plain |-> <<"earlier text">>,
     by |-> PriorTag]

TextArea(i) == [kind |-> "textarea", id |-> i, value |-> <<plainText>>, content |-> <<>>]
Container(j) == [kind |-> "container", id |-> j, value |-> <<>>, content |-> html]
ButtonFocus == [kind |-> "button", id |-> 0, value |-> <<>>, content |-> <<>>]
BodyFocus == [kind |-> "body", id |-> 0, value |-> <<>>, content |-> <<>>]
PageText == [kind |-> "page", id |-> 0, value |-> <<>>, content |-> <<>>]

World ==
    [clipboard |-> clipboard, body |-> body, ranges |-> ranges, focus |-> focus,
     alerts |-> alerts, console |-> console, landed |-> landed, threw |-> FALSE]

\* document.execCommand("copy"): copies the active selection when it succeeds
ExecCommandCopy(w, by, outcome) ==
    IF outcome = "throw" THEN [w EXCEPT !.threw = TRUE]
    ELSE IF outcome = "false" THEN w
    ELSE IF w.focus.kind = "textarea"
         THEN [w EXCEPT !.clipboard = [types |-> {"text/plain"}, html |-> <<>>,
                                       plain |-> w.focus.value, by |-> by],
                        !.landed = Append(@, by)]
    ELSE IF \E e \in w.ranges : e.kind = "container"
         THEN LET e == CHOOSE x \in w.ranges : x.kind = "container"
              IN [w EXCEPT !.clipboard = [types |-> {"text/html", "text/plain"},
                                          html |-> e.content,
                                          plain |-> TextOf(e.content), by |-> by],
                           !.landed = Append(@, by)]
    ELSE w

Alert(w, by, text) == [w EXCEPT !.alerts = Append(@, [by |-> by, text |-> text])]
ConsoleError(w, by, text) == [w EXCEPT !.console = Append(@, [by |-> by, text |-> text])]

\* ------------------------------------------- copyFormattedLink, catch block
\* lines 74-76: create the textarea, give it the plain text, attach it
FallbackAppend(w, i) == [w EXCEPT !.body = @ \cup {TextArea(i)}]

\* line 77: textArea.select()
FallbackSelect(w, i) == [w EXCEPT !.focus = TextArea(i)]

\* line 79: document.body.removeChild(textArea)
FallbackRemove(w, i) ==
    [w EXCEPT !.body = @ \ {TextArea(i)},
              !.focus = IF @ = TextArea(i) THEN BodyFocus ELSE @]

\* lines 72-81: nothing in the block is guarded, so a throwing execCommand
\* leaves the block at line 78
Fallback(w, i, outcome) ==
    LET w1 == FallbackAppend(w, i)
        w2 == FallbackSelect(w1, i)
        w3 == ExecCommandCopy(w2, FormattedTag(i), outcome)
    IN  IF w3.threw THEN w3
        ELSE Alert(FallbackRemove(w3, i), FormattedTag(i), "URL copied as plain text")

\* the entry handed to navigator.clipboard.write (lines 62-70)
WriteItem(i) ==
    ClipboardItem(Blob(fullHtml, "text/html"), Blob(plainText, "text/plain"),
                  FormattedTag(i))

ExecOutcomes == {"true", "false", "throw"}

Init ==
    /\ hasClipboardApi \in BOOLEAN
    /\ selectionApi \in BOOLEAN
    /\ clipboard = PriorEntry
    /\ body = {}
    /\ ranges = {}
    /\ focus = BodyFocus
    /\ alerts = <<>>
    /\ console = <<>>
    /\ pc = [i \in Invocations |-> "idle"]
    /\ path = [i \in Invocations |-> "none"]
    /\ execResult = [i \in Invocations |-> "none"]
    /\ spc = [j \in StyledInvocations |-> "idle"]
    /\ styledResult = [j \in StyledInvocations |-> "none"]
    /\ landed = <<>>

Commit(w) ==
    /\ clipboard' = w.clipboard
    /\ body' = w.body
    /\ ranges' = w.ranges
    /\ focus' = w.focus
    /\ alerts' = w.alerts
    /\ console' = w.console
    /\ landed' = w.landed

\* the user selects text of the page
UserSelect ==
    /\ selectionApi
    /\ ranges = {}
    /\ ranges' = {PageText}
    /\ UNCHANGED <<hasClipboardApi, selectionApi, clipboard, body, focus, alerts,
                   console, pc, path, execResult, spc, styledResult, landed>>

\* onClick={copyFormattedLink} where navigator.clipboard.write exists:
\* lines 5-70 run and the function suspends at the await
ClickPending(i) ==
    /\ pc[i] = "idle"
    /\ \A k \in Invocations : k < i => pc[k] # "idle"
    /\ hasClipboardApi
    /\ pc' = [pc EXCEPT ![i] = "pending"]
    /\ focus' = ButtonFocus
    /\ UNCHANGED <<hasClipboardApi, selectionApi, clipboard, body, ranges, alerts,
                   console, path, execResult, spc, styledResult, landed>>

\* onClick={copyFormattedLink} where the capability is absent: line 65 (or 66)
\* throws inside the try, and the catch block runs in the same task
ClickNoApi(i) ==
    /\ pc[i] = "idle"
    /\ \A k \in Invocations : k < i => pc[k] # "idle"
    /\ ~hasClipboardApi
    /\ \E outcome \in ExecOutcomes :
         LET w == Fallback([World EXCEPT !.focus = ButtonFocus], i, outcome)
         IN  /\ Commit(w)
             /\ pc' = [pc EXCEPT ![i] = IF w.threw THEN "rejected" ELSE "fulfilled"]
             /\ execResult' = [execResult EXCEPT ![i] = outcome]
    /\ path' = [path EXCEPT ![i] = "fallback"]
    /\ UNCHANGED <<hasClipboardApi, selectionApi, spc, styledResult>>

\* the platform settles the pending write: the entry replaces the clipboard
\* content as a whole
WriteResolves(i) ==
    /\ pc[i] = "pending"
    /\ clipboard' = WriteItem(i)
    /\ landed' = Append(landed, FormattedTag(i))
    /\ pc' = [pc EXCEPT ![i] = "resolved"]
    /\ UNCHANGED <<hasClipboardApi, selectionApi, body, ranges, focus, alerts,
                   console, path, execResult, spc, styledResult>>

\* the platform rejects the pending write (permission denied, no focus)
WriteRejects(i) ==
    /\ pc[i] = "pending"
    /\ pc' = [pc EXCEPT ![i] = "writeRejected"]
    /\ UNCHANGED <<hasClipboardApi, selectionApi, clipboard, body, ranges, focus,
                   alerts, console, path, execResult, spc, styledResult, landed>>

\* line 71: the function resumes after a resolved await
ResumeResolved(i) ==
    /\ pc[i] = "resolved"
    /\ Commit(Alert(World, FormattedTag(i), "Copied formatted link!"))
    /\ pc' = [pc EXCEPT ![i] = "fulfilled"]
    /\ path' = [path EXCEPT ![i] = "rich"]
    /\ UNCHANGED <<hasClipboardApi, selectionApi, execResult, spc, styledResult>>

\* lines 72-81: the function resumes in the catch block after a rejected await
ResumeRejected(i) ==
    /\ pc[i] = "writeRejected"
    /\ \E outcome \in ExecOutcomes :
         LET w == Fallback(World, i, outcome)
         IN  /\ Commit(w)
             /\ pc' = [pc EXCEPT ![i] = IF w.threw THEN "rejected" ELSE "fulfilled"]
             /\ execResult' = [execResult EXCEPT ![i] = outcome]
    /\ path' = [path EXCEPT ![i] = "fallback"]
    /\ UNCHANGED <<hasClipboardApi, selectionApi, spc, styledResult>>

\* ------------------------------------------------------- copyStyledLink
\* lines 120-125: the hidden editable container
StyledAppend(w, j) == [w EXCEPT !.body = @ \cup {Container(j)}]

\* lines 127-132: selection?.removeAllRanges(); selection?.addRange(range)
StyledSelect(w, j) ==
    IF selectionApi THEN [w EXCEPT !.ranges = {Container(j)}] ELSE w

\* the try block with the catch of lines 141-143 missing
StyledTryUncaught(w, j, outcome) ==
    LET w1 == ExecCommandCopy(w, StyledTag(j), outcome)
    IN  IF w1.threw THEN w1
        ELSE IF outcome = "true"
             THEN Alert(w1, StyledTag(j), "Styled link copied! Paste into Outlook!")
             ELSE ConsoleError(w1, StyledTag(j), "Copy command was unsuccessful")

\* the try block reporting success whatever execCommand returned
StyledTryAlwaysAlert(w, j, outcome) ==
    LET w1 == ExecCommandCopy(w, StyledTag(j), outcome)
    IN  IF w1.threw
        THEN ConsoleError([w1 EXCEPT !.threw = FALSE], StyledTag(j), "Copy failed")
        ELSE Alert(w1, StyledTag(j), "Styled link copied! Paste into Outlook!")

\* lines 134-143: try { execCommand; alert or console.error } catch { console.error }
StyledTry(w, j, outcome) ==
    LET w1 == ExecCommandCopy(w, StyledTag(j), outcome)
    IN  IF w1.threw
        THEN ConsoleError([w1 EXCEPT !.threw = FALSE], StyledTag(j), "Copy failed")
        ELSE IF outcome = "true"
             THEN Alert(w1, StyledTag(j), "Styled link copied! Paste into Outlook!")
             ELSE ConsoleError(w1, StyledTag(j), "Copy command was unsuccessful")

\* lines 145-146: selection?.removeAllRanges(); removeChild(container)
StyledCleanup(w, j) ==
    [w EXCEPT !.ranges = IF selectionApi THEN {} ELSE @,
              !.body = @ \ {Container(j)}]

\* onClick={copyStyledLink}: the whole handler, synchronous
CopyStyledLink(j) ==
    /\ spc[j] = "idle"
    /\ \A k \in StyledInvocations : k < j => spc[k] # "idle"
    /\ \E outcome \in ExecOutcomes :
         LET w0 == [World EXCEPT !.focus = ButtonFocus]
             w1 == StyledSelect(StyledAppend(w0, j), j)
             w2 == StyledTry(w1, j, outcome)
             w3 == IF w2.threw THEN w2 ELSE StyledCleanup(w2, j)
         IN  /\ Commit(w3)
             /\ spc' = [spc EXCEPT ![j] = IF w3.threw THEN "threw" ELSE "returned"]
             /\ styledResult' = [styledResult EXCEPT ![j] = outcome]
    /\ UNCHANGED <<hasClipboardApi, selectionApi, pc, path, execResult>>

Next ==
    \/ UserSelect
    \/ \E i \in Invocations : ClickPending(i)
    \/ \E i \in Invocations : ClickNoApi(i)
    \/ \E i \in Invocations : WriteResolves(i)
    \/ \E i \in Invocations : WriteRejects(i)
    \/ \E i \in Invocations : ResumeResolved(i)
    \/ \E i \in Invocations : ResumeRejected(i)
    \/ \E j \in StyledInvocations : CopyStyledLink(j)

Spec == Init /\ [][Next]_vars

\* ------------------------------------------------------------ properties
Completed(i) == pc[i] \in {"fulfilled", "rejected"}

NoStyledCopy == \A j \in StyledInvocations : spc[j] = "idle"

AlertsBy(by) == { k \in DOMAIN alerts : alerts[k].by = by }
ConsoleBy(by) == { k \in DOMAIN console : console[k].by = by }

\* C1: once an invocation of copyFormattedLink has completed (and nothing
\* else copied), the clipboard's text/plain representation is the configured
\* URL, whatever the write and the legacy copy command did.
C1_PlainTextIsUrl ==
    NoStyledCopy =>
        \A i \in Invocations : Completed(i) => clipboard.plain = <<url>>

\* C2: the promise returned by copyFormattedLink never rejects.
C2_NeverRejects == \A i \in Invocations : pc[i] # "rejected"

\* C3: after copyFormattedLink has completed, the clipboard holds an entry
\* written by an invocation of it, with both representations or text/plain
\* only; it never still holds the content from before the invocation.
C3_ClipboardWritten ==
    NoStyledCopy =>
        \A i \in Invocations :
            Completed(i) =>
                /\ clipboard.by.kind = "formatted"
                /\ clipboard.types \in {{"text/html", "text/plain"}, {"text/plain"}}

\* C4: once an invocation of copyFormattedLink has completed, its temporary
\* textarea is no longer attached to the document body.
C4_TextAreaRemoved ==
    \A i \in Invocations : Completed(i) => TextArea(i) \notin body

\* C5: when copyStyledLink completes, on every outcome of the legacy copy
\* command (true, false, throw), its container has been removed from the body
\* and the document selection holds no range.
C5_StyledCleanupAlways ==
    [][\A j \in StyledInvocations :
          (spc[j] = "idle" /\ spc'[j] # "idle") =>
              /\ styledResult'[j] \in ExecOutcomes
              /\ Container(j) \notin body'
              /\ ranges' = {}]_vars

\* C5 witness: a call whose copy command threw while the page had a selection
\* API, completed with the container gone and the selection empty
C5_Witness ==
    \E j \in StyledInvocations :
        /\ spc[j] = "returned"
        /\ styledResult[j] = "throw"
        /\ selectionApi
        /\ Container(j) \notin body
        /\ ranges = {}

\* C6: without the clipboard-write capability, a completed copyFormattedLink
\* leaves https://example.com in the text/plain slot and has displayed
\* "URL copied as plain text".
C6_NoApiScenario ==
    (~hasClipboardApi /\ NoStyledCopy) =>
        \A i \in Invocations :
            Completed(i) =>
                /\ clipboard.plain = <<"https://example.com">>
                /\ \E k \in AlertsBy(FormattedTag(i)) :
                       alerts[k].text = "URL copied as plain text"

\* C7: an entry put on the clipboard by a successful multi-format write has a
\* text/html representation whose anchors all target the configured URL and a
\* text/plain representation equal to that URL.
C7_SameDestination ==
    (clipboard.by.kind = "formatted" /\ "text/html" \in clipboard.types) =>
        /\ clipboard.types = {"text/html", "text/plain"}
        /\ AnchorTargets(clipboard.html) = {url}
        /\ clipboard.plain = <<url>>

\* C7 witness: a rich copy that completed and whose entry is on the clipboard
C7_Witness ==
    \E i \in Invocations :
        /\ pc[i] = "fulfilled"
        /\ path[i] = "rich"
        /\ clipboard.by = FormattedTag(i)
        /\ "text/html" \in clipboard.types

\* C8: every completed invocation of copyFormattedLink has displayed exactly
\* one notification, "Copied formatted link!" on the rich path and
\* "URL copied as plain text" on the fallback path.
C8_OneMatchingNotification ==
    \A i \in Invocations :
        Completed(i) =>
            /\ Cardinality(AlertsBy(FormattedTag(i))) = 1
            /\ \A k \in AlertsBy(FormattedTag(i)) :
                   /\ alerts[k].text = "Copied formatted link!" <=> path[i] = "rich"
                   /\ alerts[k].text = "URL copied as plain text" <=> path[i] = "fallback"

\* C9: a completed copyStyledLink returned normally; it displayed its success
\* notification exactly when the copy command returned true, and otherwise
\* only logged to the console.
C9_StyledNotification ==
    \A j \in StyledInvocations :
        spc[j] # "idle" =>
            /\ spc[j] = "returned"
            /\ Cardinality(AlertsBy(StyledTag(j))) =
                   (IF styledResult[j] = "true" THEN 1 ELSE 0)
            /\ Cardinality(ConsoleBy(StyledTag(j))) =
                   (IF styledResult[j] = "true" THEN 0 ELSE 1)
            /\ \A k \in AlertsBy(StyledTag(j)) :
                   alerts[k].text = "Styled link copied! Paste into Outlook!"

\* C9 witness: one call whose copy command returned false and one that
\* returned true, both completed
C9_Witness ==
    \E j, k \in StyledInvocations :
        /\ spc[j] = "returned" /\ styledResult[j] = "false"
        /\ spc[k] = "returned" /\ styledResult[k] = "true"
        /\ AlertsBy(StyledTag(j)) = {}
        /\ AlertsBy(StyledTag(k)) # {}

\* C10: a second click is accepted while the first write is pending, and once
\* all invocations have completed the clipboard holds, unmixed, the entry of
\* the writer that landed last and no temporary textarea remains attached.
C10_LastWriterWins ==
    (NoStyledCopy /\ \A i \in Invocations : Completed(i)) =>
        /\ landed # <<>> =>
              /\ clipboard.by = landed[Len(landed)]
              /\ \/ clipboard = WriteItem(clipboard.by.id)
                 \/ clipboard = [types |-> {"text/plain"}, html |-> <<>>,
                                 plain |-> <<plainText>>, by |-> clipboard.by]
        /\ \A e \in body : e.kind # "textarea"
====
